---- MODULE Spec2Model ----
(***************************************************************************)
(* Model of dbus/_dbus.py: the Bus class, its three subclasses and the     *)
(* class-level dict Bus._shared_instances that caches one shared           *)
(* connection per bus type.                                                *)
(*                                                                         *)
(* Objects live in `heap`; an object's identity is its index in `heap`.    *)
(* Every caller is a thread whose position in Bus.__new__ or Bus.close is  *)
(* its pc, named after the source line it is about to execute.  A step is  *)
(* one access to the shared dict, which is the granularity at which        *)
(* CPython may switch threads.                                             *)
(***************************************************************************)
EXTENDS Integers, Sequences, FiniteSets, TLC

\* ------------------------------------------------------------------ bounds
NumThreads == 2
MaxConns == 2
InvalidBusType == 3

\* --------------------------------------------------------------- constants
BUS_SESSION == 0
BUS_SYSTEM == 1
BUS_STARTER == 2

TYPE_SESSION == BUS_SESSION
TYPE_SYSTEM == BUS_SYSTEM
TYPE_STARTER == BUS_STARTER

Threads == 1..NumThreads
BusKinds == {BUS_SESSION, BUS_SYSTEM, BUS_STARTER}
BusTypeInputs == BusKinds \cup {InvalidBusType}
None == 0
NoType == -1
Failed == -1
BuildErrors == {"DBusException", "RuntimeError"}

VARIABLES
    _shared_instances,  \* Bus._shared_instances: bus type -> object identity
    heap,               \* the Bus objects constructed so far
    thread,             \* each thread's frame inside __new__ or close
    shared              \* history, per kind: the handle the latest non-private
                        \* acquisition returned, Failed if its construction
                        \* failed, None at the start and once close() is called
                        \* on that handle

vars == <<_shared_instances, heap, thread, shared>>

Idle ==
    [pc |-> "idle", op |-> "none", cls |-> "none", bus_type |-> NoType,
     private |-> FALSE, subclass |-> "none", bus |-> None, self |-> None,
     ret |-> None, exc |-> "none"]

AllIdle == \A t \in Threads : thread[t].pc = "idle"

Init ==
    /\ _shared_instances = <<>>
    /\ heap = <<>>
    /\ thread = [t \in Threads |-> Idle]
    /\ shared = [k \in BusKinds |-> None]

\* ----------------------------------------------------------- pure helpers

\* a deletion that empties the dict
DictDel_clears(d, k) == <<>>

\* the dict without key k
DictDel(d, k) == [x \in (DOMAIN d) \ {k} |-> d[x]]

\* the dict with d[k] = v
DictSet(d, k, v) == [x \in (DOMAIN d) \cup {k} |-> IF x = k THEN v ELSE d[x]]

\* line 90: the condition under which __new__ returns the cached instance
Hit_ignores_private(private, bus_type, reg) == bus_type \in DOMAIN reg
Hit_never(private, bus_type, reg) == FALSE
Hit(private, bus_type, reg) == (~private) /\ bus_type \in DOMAIN reg

\* lines 98-105: the subclass to instantiate, or the ValueError
SubclassFor_no_else(bus_type) ==
    IF bus_type = BUS_SESSION THEN "SessionBus"
    ELSE IF bus_type = BUS_SYSTEM THEN "SystemBus"
    ELSE "StarterBus"
SubclassFor_swapped(bus_type) ==
    IF bus_type = BUS_SESSION THEN "SystemBus"
    ELSE IF bus_type = BUS_SYSTEM THEN "SessionBus"
    ELSE IF bus_type = BUS_STARTER THEN "StarterBus"
    ELSE "ValueError"
SubclassFor(bus_type) ==
    IF bus_type = BUS_SESSION THEN "SessionBus"
    ELSE IF bus_type = BUS_SYSTEM THEN "SystemBus"
    ELSE IF bus_type = BUS_STARTER THEN "StarterBus"
    ELSE "ValueError"

\* line 111: whether the new object is stored in the dict
ShouldRegister_always(private) == TRUE
ShouldRegister_never(private) == FALSE
ShouldRegister(private) == ~private

\* line 118: `self.__class__._shared_instances[t] is self` (t is present)
IsCurrent_always(reg, t, self) == TRUE
IsCurrent_never(reg, t, self) == FALSE
IsCurrent(reg, t, self) == reg[t] = self

\* an object can be closed by a caller once some __new__ has returned it
Returned(c) ==
    /\ c \in 1..Len(heap)
    /\ \A t \in Threads : ~(thread[t].pc = "l111" /\ thread[t].bus = c)

\* --------------------------------------------------------- entering a call

\* the frame of Bus.__new__(cls, bus_type, private) at line 90
NewFrame(cls, bus_type, private) ==
    [Idle EXCEPT !.pc = "l90", !.op = "new", !.cls = cls,
                 !.bus_type = bus_type, !.private = private]

\* Bus(bus_type, private, mainloop)
Bus_new(t) ==
    /\ thread[t].pc = "idle"
    /\ \E bus_type \in BusTypeInputs, private \in BOOLEAN :
          thread' = [thread EXCEPT ![t] = NewFrame("Bus", bus_type, private)]
    /\ UNCHANGED <<_shared_instances, heap, shared>>

\* SystemBus(private, mainloop)
SystemBus_new(t) ==
    /\ thread[t].pc = "idle"
    /\ \E private \in BOOLEAN :
          thread' = [thread EXCEPT ![t] = NewFrame("SystemBus", TYPE_SYSTEM, private)]
    /\ UNCHANGED <<_shared_instances, heap, shared>>

\* SessionBus(private, mainloop)
SessionBus_new(t) ==
    /\ thread[t].pc = "idle"
    /\ \E private \in BOOLEAN :
          thread' = [thread EXCEPT ![t] = NewFrame("SessionBus", TYPE_SESSION, private)]
    /\ UNCHANGED <<_shared_instances, heap, shared>>

\* StarterBus(private, mainloop)
StarterBus_new(t) ==
    /\ thread[t].pc = "idle"
    /\ \E private \in BOOLEAN :
          thread' = [thread EXCEPT ![t] = NewFrame("StarterBus", TYPE_STARTER, private)]
    /\ UNCHANGED <<_shared_instances, heap, shared>>

\* Bus.get_session(private): return SessionBus(private=private)
get_session(t) ==
    /\ thread[t].pc = "idle"
    /\ \E private \in BOOLEAN :
          thread' = [thread EXCEPT ![t] = NewFrame("SessionBus", TYPE_SESSION, private)]
    /\ UNCHANGED <<_shared_instances, heap, shared>>

\* Bus.get_system(private): return SystemBus(private=private)
get_system(t) ==
    /\ thread[t].pc = "idle"
    /\ \E private \in BOOLEAN :
          thread' = [thread EXCEPT ![t] = NewFrame("SystemBus", TYPE_SYSTEM, private)]
    /\ UNCHANGED <<_shared_instances, heap, shared>>

\* Bus.get_starter(private): return StarterBus(private=private)
get_starter(t) ==
    /\ thread[t].pc = "idle"
    /\ \E private \in BOOLEAN :
          thread' = [thread EXCEPT ![t] = NewFrame("StarterBus", TYPE_STARTER, private)]
    /\ UNCHANGED <<_shared_instances, heap, shared>>

\* bus.close() on an object some caller holds
close(t) ==
    /\ thread[t].pc = "idle"
    /\ \E c \in 1..Len(heap) :
          /\ Returned(c)
          /\ thread' = [thread EXCEPT ![t] =
                 [Idle EXCEPT !.pc = "l117", !.op = "close", !.self = c]]
          /\ shared' = [k \in BusKinds |-> IF shared[k] = c THEN None ELSE shared[k]]
    /\ UNCHANGED <<_shared_instances, heap>>

\* ------------------------------------------------------ steps of __new__

\* what the history records when a non-private acquisition of k ends
Outcome(t, ret, exc) ==
    LET f == thread[t] IN
    IF f.private \/ f.bus_type \notin BusKinds
    THEN UNCHANGED shared
    ELSE shared' = IF ret # None THEN [shared EXCEPT ![f.bus_type] = ret]
                   ELSE IF exc \in BuildErrors
                        THEN [shared EXCEPT ![f.bus_type] = Failed]
                   ELSE shared

\* line 90: if (not private and bus_type in cls._shared_instances); on a miss,
\* lines 98-105: choose the subclass or raise ValueError
New_l90(t) ==
    LET f == thread[t]
        s == SubclassFor(f.bus_type) IN
    /\ f.pc = "l90"
    /\ IF Hit(f.private, f.bus_type, _shared_instances)
       THEN /\ thread' = [thread EXCEPT ![t].pc = "l91"]
            /\ UNCHANGED shared
       ELSE IF s = "ValueError"
       THEN /\ thread' = [thread EXCEPT ![t].pc = "done", ![t].exc = "ValueError"]
            /\ Outcome(t, None, "ValueError")
       ELSE /\ thread' = [thread EXCEPT ![t].pc = "l107", ![t].subclass = s]
            /\ UNCHANGED shared
    /\ UNCHANGED <<_shared_instances, heap>>

\* line 91: return cls._shared_instances[bus_type]
New_l91(t) ==
    LET f == thread[t] IN
    /\ f.pc = "l91"
    /\ IF f.bus_type \in DOMAIN _shared_instances
       THEN /\ thread' = [thread EXCEPT ![t].pc = "done",
                              ![t].ret = _shared_instances[f.bus_type]]
            /\ Outcome(t, _shared_instances[f.bus_type], "none")
       ELSE /\ thread' = [thread EXCEPT ![t].pc = "done", ![t].exc = "KeyError"]
            /\ Outcome(t, None, "KeyError")
    /\ UNCHANGED <<_shared_instances, heap>>

\* a construction that publishes the half-built object before it can fail
New_l107_registers_first(t) ==
    LET f == thread[t]
        b == Len(heap) + 1 IN
    /\ f.pc = "l107"
    /\ Len(heap) < MaxConns
    /\ heap' = Append(heap, [cls |-> f.subclass, _bus_type |-> f.bus_type,
                             closed |-> FALSE, private |-> f.private,
                             registered |-> ~f.private])
    /\ _shared_instances' = IF f.private THEN _shared_instances
                            ELSE DictSet(_shared_instances, f.bus_type, b)
    /\ \/ /\ thread' = [thread EXCEPT ![t].pc = "l111", ![t].bus = b]
          /\ UNCHANGED shared
       \/ \E e \in BuildErrors :
            /\ thread' = [thread EXCEPT ![t].pc = "done", ![t].exc = e]
            /\ Outcome(t, None, e)

\* lines 107-109: bus = BusConnection.__new__(subclass, bus_type, mainloop);
\* bus._bus_type = bus_type.  The construction either yields a new object or
\* raises (no connection to the daemon, or no main loop).
New_l107(t) ==
    LET f == thread[t] IN
    /\ f.pc = "l107"
    /\ \/ /\ Len(heap) < MaxConns
          /\ heap' = Append(heap, [cls |-> f.subclass, _bus_type |-> f.bus_type,
                                   closed |-> FALSE, private |-> f.private,
                                   registered |-> FALSE])
          /\ thread' = [thread EXCEPT ![t].pc = "l111", ![t].bus = Len(heap) + 1]
          /\ UNCHANGED shared
       \/ \E e \in BuildErrors :
            /\ thread' = [thread EXCEPT ![t].pc = "done", ![t].exc = e]
            /\ Outcome(t, None, e)
            /\ UNCHANGED heap
    /\ UNCHANGED _shared_instances

\* lines 111-114: if not private: cls._shared_instances[bus_type] = bus;
\* return bus
New_l111(t) ==
    LET f == thread[t] IN
    /\ f.pc = "l111"
    /\ IF ShouldRegister(f.private)
       THEN /\ _shared_instances' = DictSet(_shared_instances, f.bus_type, f.bus)
            /\ heap' = [heap EXCEPT ![f.bus].registered = TRUE]
       ELSE UNCHANGED <<_shared_instances, heap>>
    /\ thread' = [thread EXCEPT ![t].pc = "done", ![t].ret = f.bus]
    /\ Outcome(t, f.bus, "none")

\* ---------------------------------------------------------- steps of close

\* lines 117-118: t = self._bus_type;
\* if self.__class__._shared_instances[t] is self
Close_l117(t) ==
    LET f == thread[t]
        k == heap[f.self]._bus_type IN
    /\ f.pc = "l117"
    /\ thread' = [thread EXCEPT ![t] =
           IF k \notin DOMAIN _shared_instances
           THEN [f EXCEPT !.pc = "done", !.exc = "KeyError"]
           ELSE IF IsCurrent(_shared_instances, k, f.self)
                THEN [f EXCEPT !.pc = "l119"]
                ELSE [f EXCEPT !.pc = "l120"]]
    /\ UNCHANGED <<_shared_instances, heap, shared>>

\* a close that forgets the deletion
Close_l119_keeps(t) ==
    /\ thread[t].pc = "l119"
    /\ thread' = [thread EXCEPT ![t].pc = "l120"]
    /\ UNCHANGED <<_shared_instances, heap, shared>>

\* line 119: del self.__class__._shared_instances[t]
Close_l119(t) ==
    LET f == thread[t]
        k == heap[f.self]._bus_type IN
    /\ f.pc = "l119"
    /\ IF k \in DOMAIN _shared_instances
       THEN /\ _shared_instances' = DictDel(_shared_instances, k)
            /\ thread' = [thread EXCEPT ![t].pc = "l120"]
       ELSE /\ thread' = [thread EXCEPT ![t].pc = "done", ![t].exc = "KeyError"]
            /\ UNCHANGED _shared_instances
    /\ UNCHANGED <<heap, shared>>

\* a close that never reaches the connection's own close
Close_l120_skips(t) ==
    /\ thread[t].pc = "l120"
    /\ thread' = [thread EXCEPT ![t].pc = "done"]
    /\ UNCHANGED <<_shared_instances, heap, shared>>

\* line 120: super(Bus, self).close()
Close_l120(t) ==
    LET f == thread[t] IN
    /\ f.pc = "l120"
    /\ heap' = [heap EXCEPT ![f.self].closed = TRUE]
    /\ thread' = [thread EXCEPT ![t].pc = "done"]
    /\ UNCHANGED <<_shared_instances, shared>>

\* the caller takes the result (or the exception) and goes on
Return(t) ==
    /\ thread[t].pc = "done"
    /\ thread' = [thread EXCEPT ![t] = Idle]
    /\ UNCHANGED <<_shared_instances, heap, shared>>

\* ------------------------------------------------------- specifications

Step(t) ==
    \/ New_l90(t)
    \/ New_l91(t)
    \/ New_l107(t)
    \/ New_l111(t)
    \/ Close_l117(t)
    \/ Close_l119(t)
    \/ Close_l120(t)
    \/ Return(t)

\* every call runs to completion before the next one starts
Next ==
    \E t \in Threads :
        \/ AllIdle /\ Bus_new(t)
        \/ AllIdle /\ SystemBus_new(t)
        \/ AllIdle /\ SessionBus_new(t)
        \/ AllIdle /\ StarterBus_new(t)
        \/ AllIdle /\ get_session(t)
        \/ AllIdle /\ get_system(t)
        \/ AllIdle /\ get_starter(t)
        \/ AllIdle /\ close(t)
        \/ Step(t)

Spec == Init /\ [][Next]_vars

\* the callers are threads whose steps interleave freely
NextConc ==
    \E t \in Threads :
        \/ Bus_new(t)
        \/ close(t)
        \/ Step(t)

SpecConc == Init /\ [][NextConc]_vars

TypeOK ==
    /\ DOMAIN _shared_instances \subseteq BusKinds
    /\ \A k \in DOMAIN _shared_instances : _shared_instances[k] \in 1..Len(heap)
    /\ Len(heap) <= MaxConns
    /\ \A t \in Threads : thread[t].pc \in
           {"idle", "l90", "l91", "l107", "l111",
            "l117", "l119", "l120", "done"}

\* ------------------------------------------------------------- properties

Done(t) == thread[t].pc = "done"

\* thread t takes a step
StepOf(t) == thread'[t].pc # thread[t].pc

\* thread t takes the last step of a call
Finishes(t) == thread[t].pc # "done" /\ thread'[t].pc = "done"

\* thread t takes the last step of a non-private acquisition of a bus kind
FinishesShared(t) ==
    /\ Finishes(t)
    /\ thread[t].op = "new"
    /\ ~thread[t].private
    /\ thread[t].bus_type \in BusKinds

Objects == 1..Len(heap)

\* C1: (calls run one after the other) a non-private acquisition of k made
\* while the handle returned by the previous non-private acquisition of k has
\* not been closed returns that same object and constructs nothing.
C1_Singleton ==
    [][\A t \in Threads :
          (FinishesShared(t) /\ shared[thread[t].bus_type] \in Objects)
          => /\ thread'[t].exc = "none"
             /\ thread'[t].ret = shared[thread[t].bus_type]
             /\ thread'[t].bus = None
             /\ heap' = heap]_vars

\* a non-private acquisition has returned the cached object without building
C1_Witness ==
    \E t \in Threads :
        /\ Done(t) /\ thread[t].op = "new" /\ ~thread[t].private
        /\ thread[t].bus = None
        /\ thread[t].ret # None
        /\ thread[t].ret = shared[thread[t].bus_type]

\* no object built by a private acquisition is, or ever was, a dict entry
PrivateNeverRegistered ==
    \A c \in Objects :
        heap[c].private =>
            /\ ~heap[c].registered
            /\ \A k \in DOMAIN _shared_instances : _shared_instances[k] # c

\* C2: a private acquisition that returns, returns an object built by that very
\* call, which is not and never was a dict entry (and never becomes one); no
\* step of a private acquisition changes the dict, whether or not it holds an
\* entry for the kind.
C2_Isolation ==
    [][/\ PrivateNeverRegistered'
       /\ \A t \in Threads :
            (StepOf(t) /\ thread'[t].op = "new" /\ thread'[t].private)
            => /\ _shared_instances' = _shared_instances
               /\ (thread'[t].pc = "done" /\ thread'[t].ret # None)
                  => /\ thread'[t].ret = thread'[t].bus
                     /\ heap'[thread'[t].ret].private
                     /\ ~heap'[thread'[t].ret].registered]_vars

\* a private acquisition has returned while the dict holds an entry for its kind
C2_Witness ==
    \E t \in Threads :
        /\ Done(t) /\ thread[t].op = "new" /\ thread[t].private
        /\ thread[t].ret # None
        /\ thread[t].bus_type \in DOMAIN _shared_instances
        /\ _shared_instances[thread[t].bus_type] # thread[t].ret

\* some shared handle of kind k has been acquired and closed
ClosedShared(k) ==
    {c \in Objects : heap[c]._bus_type = k /\ heap[c].registered /\ heap[c].closed}

\* C3: (calls run one after the other) after shared A of kind k was acquired
\* and closed, a non-private acquisition of k that returns, returns an object
\* it has just built, distinct from A and open, and the dict entry for k is
\* that object; if it does not return, it raised a construction error.
C3_Eviction ==
    [][\A t \in Threads :
          (/\ FinishesShared(t)
           /\ shared[thread[t].bus_type] \notin Objects
           /\ ClosedShared(thread[t].bus_type) # {})
          => IF thread'[t].ret = None
             THEN thread'[t].exc \in BuildErrors
             ELSE /\ thread[t].bus # None
                  /\ thread'[t].ret = thread[t].bus
                  /\ thread'[t].ret \notin ClosedShared(thread[t].bus_type)
                  /\ ~heap'[thread'[t].ret].closed
                  /\ thread[t].bus_type \in DOMAIN _shared_instances'
                  /\ _shared_instances'[thread[t].bus_type] = thread'[t].ret]_vars

\* a non-private acquisition has returned a new object B while a closed shared
\* A of the same kind exists, and the dict entry is B
C3_Witness ==
    \E t \in Threads :
        /\ Done(t) /\ thread[t].op = "new" /\ ~thread[t].private
        /\ thread[t].ret # None /\ thread[t].ret = thread[t].bus
        /\ ClosedShared(thread[t].bus_type) # {}
        /\ _shared_instances[thread[t].bus_type] = thread[t].ret

\* close() is running on A, a shared handle already closed, while the dict
\* entry for A's kind is another object
StaleClose(t) ==
    /\ thread[t].op = "close"
    /\ heap[thread[t].self].registered
    /\ heap[thread[t].self].closed
    /\ heap[thread[t].self]._bus_type \in DOMAIN _shared_instances
    /\ _shared_instances[heap[thread[t].self]._bus_type] # thread[t].self

\* C4: (calls run one after the other) no step of a close() on the closed A
\* changes the dict while its entry for A's kind is another object B, B stays
\* open, and the close() raises nothing.
C4_StaleCloseGuard ==
    [][\A t \in Threads :
          (StepOf(t) /\ StaleClose(t))
          => /\ _shared_instances' = _shared_instances
             /\ ~heap'[_shared_instances[heap[thread[t].self]._bus_type]].closed
             /\ thread'[t].exc = "none"]_vars

\* a repeated close() of A has completed and the dict entry is still B
C4_Witness ==
    \E t \in Threads :
        /\ Done(t) /\ StaleClose(t)
        /\ thread[t].exc = "none"
        /\ ~heap[_shared_instances[heap[thread[t].self]._bus_type]].closed

\* C5: a close() of a private handle completes without error and leaves the
\* handle closed (stated as the claim states it; the code violates it).
C5_PrivateCloseClaim ==
    \A t \in Threads :
        (Done(t) /\ thread[t].op = "close" /\ heap[thread[t].self].private)
        => /\ thread[t].exc = "none"
           /\ heap[thread[t].self].closed

\* C6: no step of an acquisition whose bus_type is none of the three kinds
\* changes the dict or constructs an object, and the call ends with ValueError.
C6_InvalidKind ==
    [][\A t \in Threads :
          (/\ StepOf(t)
           /\ thread'[t].op = "new"
           /\ thread'[t].bus_type \notin BusKinds)
          => /\ _shared_instances' = _shared_instances
             /\ heap' = heap
             /\ thread'[t].pc = "done"
                => /\ thread'[t].exc = "ValueError"
                   /\ thread'[t].ret = None
                   /\ thread'[t].bus = None]_vars

\* an acquisition with an invalid bus_type has ended with ValueError
C6_Witness ==
    \E t \in Threads :
        /\ Done(t) /\ thread[t].op = "new"
        /\ thread[t].bus_type \notin BusKinds
        /\ thread[t].exc = "ValueError"
        /\ DOMAIN _shared_instances # {}

\* C7: (calls run one after the other) a step of an acquisition changes the
\* dict only if it returns an object; a non-private acquisition of k that ends
\* in a construction error has built nothing and leaves k without entry; and
\* the non-private acquisition of k after a failed one goes through
\* construction (it returns what it built or raises a construction error).
C7_FailedConstruction ==
    [][\A t \in Threads :
          /\ (StepOf(t) /\ thread[t].op = "new"
                /\ _shared_instances' # _shared_instances)
             => thread'[t].ret # None
          /\ (FinishesShared(t) /\ thread'[t].exc \in BuildErrors)
             => /\ _shared_instances' = _shared_instances
                /\ thread[t].bus_type \notin DOMAIN _shared_instances'
                /\ heap' = heap
                /\ thread'[t].ret = None
                /\ thread'[t].bus = None
          /\ (FinishesShared(t) /\ shared[thread[t].bus_type] = Failed)
             => \/ thread'[t].exc \in BuildErrors
                \/ thread'[t].ret # None /\ thread'[t].ret = thread'[t].bus]_vars

\* a non-private acquisition has ended in a construction error
C7_Witness ==
    \E t \in Threads :
        /\ Done(t) /\ thread[t].op = "new" /\ ~thread[t].private
        /\ thread[t].exc \in BuildErrors
        /\ shared[thread[t].bus_type] = Failed
        /\ thread[t].bus_type \notin DOMAIN _shared_instances

\* objects built by non-private acquisitions of kind k
SharedBuilt(k) == {c \in Objects : heap[c]._bus_type = k /\ ~heap[c].private}

\* no close() has yet been called on an object built by a non-private
\* acquisition of k: the dict entry for k has never been deleted
FirstGeneration(k) ==
    /\ \A c \in SharedBuilt(k) : ~heap[c].closed
    /\ \A t \in Threads :
         thread[t].op = "close" => thread[t].self \notin SharedBuilt(k)

\* C8: threads that race for a kind that never had an entry construct exactly
\* one object and all get that object (stated as the claim states it; the
\* code violates it).
C8_ConcurrentFirstAcquireClaim ==
    \A k \in BusKinds :
        FirstGeneration(k) =>
            /\ Cardinality(SharedBuilt(k)) <= 1
            /\ \A t1, t2 \in Threads :
                 (/\ Done(t1) /\ thread[t1].op = "new" /\ ~thread[t1].private
                  /\ Done(t2) /\ thread[t2].op = "new" /\ ~thread[t2].private
                  /\ thread[t1].bus_type = k /\ thread[t2].bus_type = k
                  /\ thread[t1].ret # None /\ thread[t2].ret # None)
                 => thread[t1].ret = thread[t2].ret

\* the kind a caller asks for: the bus_type given to Bus, or the kind the
\* named class stands for
RequestedKind(f) ==
    IF f.cls = "Bus" THEN f.bus_type
    ELSE IF f.cls = "SessionBus" THEN BUS_SESSION
    ELSE IF f.cls = "SystemBus" THEN BUS_SYSTEM
    ELSE BUS_STARTER

\* the subclass that stands for a kind
ClassOfKind(k) ==
    CASE k = BUS_SESSION -> "SessionBus"
      [] k = BUS_SYSTEM -> "SystemBus"
      [] k = BUS_STARTER -> "StarterBus"

\* C9: every object an acquisition returns is tagged with the requested kind
\* and is an instance of that kind's subclass, and the dict entry under k is
\* an object tagged k.
C9_KindTagging ==
    /\ \A t \in Threads :
         (Done(t) /\ thread[t].op = "new" /\ thread[t].ret # None)
         => /\ heap[thread[t].ret]._bus_type = RequestedKind(thread[t])
            /\ heap[thread[t].ret].cls = ClassOfKind(RequestedKind(thread[t]))
    /\ \A k \in DOMAIN _shared_instances :
         /\ k \in BusKinds
         /\ heap[_shared_instances[k]]._bus_type = k
         /\ heap[_shared_instances[k]].cls = ClassOfKind(k)

\* SystemBus() has returned the object stored under BUS_SYSTEM
C9_Witness ==
    \E t \in Threads :
        /\ Done(t) /\ thread[t].op = "new" /\ thread[t].cls = "SystemBus"
        /\ thread[t].ret # None
        /\ BUS_SYSTEM \in DOMAIN _shared_instances
        /\ _shared_instances[BUS_SYSTEM] = thread[t].ret

\* C10: under every interleaving, the dict entry of a kind is never a closed
\* object.
C10_RegistryLive ==
    \A k \in DOMAIN _shared_instances : ~heap[_shared_instances[k]].closed

\* a shared object has been closed and the dict holds another object of its kind
C10_Witness ==
    \E k \in DOMAIN _shared_instances :
        \E c \in Objects :
            /\ heap[c]._bus_type = k /\ heap[c].registered /\ heap[c].closed
            /\ _shared_instances[k] # c

\* C11: under every interleaving, a step of close(A) that removes the dict
\* entry of A's kind removes A itself, never another object stored meanwhile
\* (stated as the claim states it; the code violates it).
C11_CloseRemovesOnlySelfClaim ==
    [][\A t \in Threads :
          (/\ StepOf(t)
           /\ thread[t].op = "close"
           /\ heap[thread[t].self]._bus_type \in DOMAIN _shared_instances
           /\ heap[thread[t].self]._bus_type \notin DOMAIN _shared_instances')
          => _shared_instances[heap[thread[t].self]._bus_type] = thread[t].self]_vars

\* C12: a close() of a handle built by a non-private acquisition completes
\* without error, also when the dict holds no entry for its kind (stated as
\* the claim states it; the code violates it).
C12_CloseWithoutEntryClaim ==
    \A t \in Threads :
        (Done(t) /\ thread[t].op = "close" /\ ~heap[thread[t].self].private)
        => thread[t].exc = "none"

\* no call is in progress
Quiet == \A t \in Threads : thread[t].pc \in {"idle", "done"}

\* C13: (calls run one after the other) a non-private acquisition of k that
\* finds an entry for k returns that entry and builds and stores nothing; one
\* that finds none either raises a construction error, leaving the dict and
\* the objects as they were, or returns the object it has just built, stored
\* under k.  Every object built by a non-private acquisition is stored exactly
\* once, by a step that takes its kind from absent to present, so the objects
\* built for k and the times k went from absent to present are as many.
C13_BuildIffMiss ==
    [][/\ \A t \in Threads :
            FinishesShared(t) =>
                LET k == thread[t].bus_type IN
                IF k \in DOMAIN _shared_instances
                THEN /\ thread'[t].exc = "none"
                     /\ thread'[t].ret = _shared_instances[k]
                     /\ thread[t].bus = None
                     /\ heap' = heap
                     /\ _shared_instances' = _shared_instances
                ELSE \/ /\ thread'[t].exc \in BuildErrors
                        /\ thread'[t].ret = None
                        /\ thread[t].bus = None
                        /\ heap' = heap
                        /\ _shared_instances' = _shared_instances
                     \/ /\ thread'[t].exc = "none"
                        /\ thread[t].bus = Len(heap)
                        /\ thread'[t].ret = thread[t].bus
                        /\ ~heap[thread[t].bus].registered
                        /\ _shared_instances' =
                               [x \in DOMAIN _shared_instances \cup {k} |->
                                   IF x = k THEN thread'[t].ret
                                   ELSE _shared_instances[x]]
       /\ \A k \in BusKinds :
            (k \notin DOMAIN _shared_instances /\ k \in DOMAIN _shared_instances')
            => \E t \in Threads :
                  /\ FinishesShared(t) /\ thread[t].bus_type = k
                  /\ thread'[t].ret = _shared_instances'[k]
                  /\ thread'[t].ret = thread[t].bus
       /\ Quiet' => \A c \in 1..Len(heap') :
                       (~heap'[c].private) => heap'[c].registered]_vars

\* a miss has built and stored an object of a kind that had a closed one
\* before: the second time that kind went from absent to present
C13_Witness ==
    \E t \in Threads :
        /\ Done(t) /\ thread[t].op = "new" /\ ~thread[t].private
        /\ thread[t].ret # None /\ thread[t].ret = thread[t].bus
        /\ Cardinality(SharedBuilt(thread[t].bus_type)) = 2
        /\ _shared_instances[thread[t].bus_type] = thread[t].ret

\* C14: (calls run one after the other) when no call is in progress, every
\* open object built by a non-private acquisition of k is the dict entry for
\* k; so at most one such object is open.
C14_AtMostOneShared ==
    Quiet =>
        \A k \in BusKinds :
            /\ \A c \in SharedBuilt(k) :
                 ~heap[c].closed =>
                     /\ k \in DOMAIN _shared_instances
                     /\ _shared_instances[k] = c
            /\ Cardinality({c \in SharedBuilt(k) : ~heap[c].closed}) <= 1

\* between calls, a kind has a closed shared object and an open one, the entry
C14_Witness ==
    /\ AllIdle
    /\ \E k \in DOMAIN _shared_instances :
         /\ ~heap[_shared_instances[k]].closed
         /\ \E c \in SharedBuilt(k) : heap[c].closed

\* the bus type a frame's call is about
KindOf(f) == IF f.op = "close" THEN heap[f.self]._bus_type ELSE f.bus_type

\* the bus type of the call thread t takes a step of
StepKind(t) ==
    IF thread[t].pc = "idle" THEN KindOf(thread'[t]) ELSE KindOf(thread[t])

\* C15: no step of an acquisition or a close on kind k, whatever its outcome,
\* changes the dict entry of another kind or closes an object of another
\* kind.
C15_CrossKind ==
    [][\A t \in Threads :
          StepOf(t) =>
              /\ \A k2 \in BusKinds \ {StepKind(t)} :
                   /\ (k2 \in DOMAIN _shared_instances')
                          = (k2 \in DOMAIN _shared_instances)
                   /\ k2 \in DOMAIN _shared_instances
                          => _shared_instances'[k2] = _shared_instances[k2]
              /\ \A c \in Objects :
                   heap[c]._bus_type # StepKind(t)
                       => heap'[c].closed = heap[c].closed]_vars

\* a close() has deleted its kind's entry and completed while the dict holds
\* an entry of another kind
C15_Witness ==
    \E t \in Threads :
        /\ Done(t) /\ thread[t].op = "close" /\ thread[t].exc = "none"
        /\ heap[thread[t].self].registered
        /\ heap[thread[t].self]._bus_type \notin DOMAIN _shared_instances
        /\ DOMAIN _shared_instances # {}

\* C16: under every interleaving, a non-private acquisition never ends in the
\* KeyError of a dict read (stated as the claim states it; the code violates
\* it).
C16_AcquireNoLookupErrorClaim ==
    \A t \in Threads :
        (Done(t) /\ thread[t].op = "new") => thread[t].exc # "KeyError"
====
